---------------------------- MODULE Spec2Model ----------------------------
(***************************************************************************)
(* A model of the resilience layer of vscode-acmoj:                        *)
(*   - CacheService            (src/src/cache.ts)                          *)
(*   - ApiClient.requestWithRetry and its interceptors (src/src/api.ts)    *)
(*   - SubmissionMonitorService (src/src/submissionMonitor.ts)             *)
(*                                                                         *)
(* Time is counted in whole clock units; a ttl of n "minutes" is n units   *)
(* (cache.ts multiplies by 60 * 1000 because Date.now() is in ms).         *)
(***************************************************************************)
EXTENDS Integers, Sequences, FiniteSets, TLC

VARIABLES
    cache,          \* CacheService.cache : key -> CacheEntry
    now,            \* Date.now()
    pending,        \* getOrFetch calls suspended on `await fetchFn()`
    before,         \* ghost: the cache as it was before the last operation
    last,           \* ghost: what the last operation was and what it returned
    \* ApiClient.requestWithRetry, one call
    retryCount,     \* this.retryCount
    retryDelay,     \* this.retryDelay
    attempt,        \* let attempt
    lastError,      \* let lastError
    rpc,            \* where the call is: idle, awaiting, sleeping, returned, thrown
    thrown,         \* the error the call threw
    requests,       \* ghost: axiosInstance.get/post calls issued
    responses,      \* ghost: the HTTP outcome of each request, in order
    unauthorizedCalls, \* ghost: calls of AuthService.handleUnauthorizedError
    sleeps,         \* ghost: the backoff delays slept, in order
    \* SubmissionMonitorService
    monitoredSubmissions, \* Map<number, string>, in insertion order
    timer,          \* this.timer is set
    intervals,      \* how many setInterval timers of the monitor are live
    maxAttempts,    \* this.maxAttempts
    ticks,          \* the checkSubmissions invocations suspended on a fetch
    timerFires,     \* ghost: how often the interval callback has run
    added,          \* ghost: per id, the initial statuses of its addSubmission calls
    polls,          \* ghost: per id, how many statuses the monitor got for it
    onScript,       \* ghost: per id, those statuses were Script[1], Script[2], ...
    steady,         \* ghost: per id, those statuses all were its first initial status
    notified,       \* ghost: per id, showStatusChangeNotification calls
    refreshed,      \* ghost: the last finished checkSubmissions called refresh()
    stops,          \* ghost: explicit stop() calls
    emptied,        \* ghost: monitoredSubmissions was empty since the last addSubmission
    staleWrite,     \* ghost: a response overtaken by a later fetch's response was written
    \* AuthService and the objects built on it
    token,          \* AuthService._accessToken
    sentAuth,       \* ghost: the Authorization header of each request, in order
    sweepTimers,    \* how many setInterval timers of CacheService objects are live
    calls           \* ghost: the latest read operations, with the key each built

cacheVars == <<cache, now, pending, before, last>>

retryVars == <<retryCount, retryDelay, attempt, lastError, rpc, thrown,
               requests, responses, unauthorizedCalls, sleeps>>

monitorVars == <<monitoredSubmissions, timer, intervals, maxAttempts, ticks,
                 timerFires, added, polls, onScript, steady, notified, refreshed,
                 stops, emptied, staleWrite>>

clientVars == <<token, sentAuth, sweepTimers, calls>>

vars == <<cacheVars, retryVars, monitorVars, clientVars>>

notCacheVars == <<retryVars, monitorVars, clientVars>>

notRetryVars == <<cacheVars, monitorVars, sweepTimers, calls>>

-----------------------------------------------------------------------------
(* Bounds of the model.                                                    *)

MaxTime == 5
MaxTTL == 2
MaxRetryCount == 3
MaxRetryDelay == 2
MaxInterval == 2
MaxTimeout == 2
MaxTimerFires == 3
MaxAdds == 2
MaxStops == 1
MaxEvents == 5
MaxMonitorTime == 6
MaxSweepTimers == 3
MaxStrLen == 1
\* Scaled-down stand-ins for `30 * 60 * 1000` (cache.ts:16) and for the
\* default ttl `new CacheService(15)` (api.ts:26), in clock units.
StalePeriod == 2
DefaultTTL == 1

-----------------------------------------------------------------------------
(* JavaScript values held in the cache.                                    *)

Undefined == [kind |-> "undefined", n |-> 0, s |-> ""]
Num(x) == [kind |-> "number", n |-> x, s |-> ""]
Str(x) == [kind |-> "string", n |-> 0, s |-> x]
\* A Submission object, of which only `status` is read.
Obj(status) == [kind |-> "object", n |-> 0, s |-> status]

\* ToBoolean: what `if (v)` and `v || d` test.
Truthy(v) ==
    CASE v.kind = "number" -> v.n # 0
      [] v.kind = "string" -> v.s # ""
      [] v.kind = "object" -> TRUE
      [] OTHER -> FALSE

-----------------------------------------------------------------------------
(* Cache keys are strings; a string is modelled as the tuple of its        *)
(* characters so that startsWith is computed, not assumed.                 *)

SubmissionsPrefix == <<"s","u","b","m","i","s","s","i","o","n","s",":">>
SubmissionPrefix == <<"s","u","b","m","i","s","s","i","o","n",":">>
SubmissionCodePrefix == <<"s","u","b","m","i","s","s","i","o","n","C","o","d","e",":">>
ProblemPrefix == <<"p","r","o","b","l","e","m",":">>
MonitorAttemptsPrefix == <<"m","o","n","i","t","o","r","_","a","t","t","e","m","p","t","s","_">>

DigitChars == <<"0","1","2","3","4","5","6","7","8","9">>

RECURSIVE NumberToString(_)
NumberToString(x) ==
    IF x < 10 THEN <<DigitChars[x + 1]>>
    ELSE NumberToString(x \div 10) \o <<DigitChars[(x % 10) + 1]>>

StartsWithShort(key, prefix) ==
    /\ Len(prefix) - 1 <= Len(key)
    /\ SubSeq(key, 1, Len(prefix) - 1) = SubSeq(prefix, 1, Len(prefix) - 1)

\* String.prototype.startsWith
StartsWith(key, prefix) ==
    /\ Len(prefix) <= Len(key)
    /\ SubSeq(key, 1, Len(prefix)) = prefix

-----------------------------------------------------------------------------
(* CacheService, as pure functions of the map and the clock.               *)

NoEntry == [data |-> Undefined, expires |-> -1, staleUntil |-> -1]

Entry(c, key) == IF key \in DOMAIN c THEN c[key] ELSE NoEntry

Remove(c, key) == [k \in DOMAIN c \ {key} |-> c[k]]

Put(c, key, entry) == [k \in DOMAIN c \cup {key} |-> IF k = key THEN entry ELSE c[k]]

EmptyCache == [k \in {} |-> NoEntry]

\* cache.ts:30   if (now > entry.expires)
IsExpiredAtOrAfter(t, entry) == t >= entry.expires

IsExpired(t, entry) == t > entry.expires

\* cache.ts:32, 75   entry.staleUntil && now > entry.staleUntil
IsDead(t, entry) == entry.staleUntil # 0 /\ t > entry.staleUntil

\* get(): the value returned
GetValue(c, key, t) ==
    IF key \notin DOMAIN c THEN Undefined
    ELSE IF IsExpired(t, c[key]) THEN Undefined
    ELSE c[key].data

\* get(): the map afterwards
GetEffect(c, key, t) ==
    IF key \in DOMAIN c /\ IsExpired(t, c[key]) /\ IsDead(t, c[key])
    THEN Remove(c, key)
    ELSE c

\* set() called without ttlMinutes
NoTtl == -1

\* set(): `ttlMinutes ? ttlMinutes * 60 * 1000 : this.defaultTTL` takes the
\* default for an omitted ttlMinutes and for 0 alike.
TtlOf(ttlMinutes) ==
    IF ttlMinutes # NoTtl /\ ttlMinutes # 0 THEN ttlMinutes ELSE DefaultTTL

SetEffectStaleFromNow(c, key, data, ttlMinutes, t) ==
    Put(c, key, [data |-> data, expires |-> t + TtlOf(ttlMinutes),
                 staleUntil |-> t + StalePeriod])

SetEffect(c, key, data, ttlMinutes, t) ==
    LET expires == t + TtlOf(ttlMinutes)
    IN  Put(c, key, [data |-> data, expires |-> expires,
                     staleUntil |-> expires + StalePeriod])

\* cleanExpiredEntries()
SweepEffect(c, t) ==
    LET keep == {k \in DOMAIN c : ~IsDead(t, c[k])}
    IN  [k \in keep |-> c[k]]

StaleEntryNoUpperBound(c, key, t) ==
    IF key \notin DOMAIN c THEN Undefined
    ELSE IF IsExpired(t, c[key]) THEN c[key].data
    ELSE Undefined

\* getStaleEntry()
StaleEntry(c, key, t) ==
    IF key \notin DOMAIN c THEN Undefined
    ELSE IF /\ IsExpired(t, c[key])
            /\ c[key].staleUntil # 0
            /\ t <= c[key].staleUntil
         THEN c[key].data
    ELSE Undefined

\* deleteWithPrefix(): Map.forEach visits every entry, also when the
\* callback deletes the entry it is visiting.
DeleteWithPrefixEffect(c, prefix) ==
    LET keep == {k \in DOMAIN c : ~StartsWith(k, prefix)}
    IN  [k \in keep |-> c[k]]


-----------------------------------------------------------------------------
(* The cache operations as actions.  Every action records in `last` what  *)
(* it was called with and what it returned, and in `before` the map it    *)
(* found.                                                                  *)

ProblemKey(id) == ProblemPrefix \o NumberToString(id)
SubmissionKey(id) == SubmissionPrefix \o NumberToString(id)
SubmissionCodeKey(url) == SubmissionCodePrefix \o url
MonitorAttemptsKey(id) == MonitorAttemptsPrefix \o NumberToString(id)
\* `submissions:${cursor}:${username}:${problemId}:${status}:${lang}` with
\* every selector omitted
SubmissionsListKey == SubmissionsPrefix \o <<":", ":", ":", ":">>

ProblemsPrefix == <<"p","r","o","b","l","e","m","s",":">>

\* An optional parameter that is not passed: a string, a number.
NoArg == <<"undefined">>
NoNumber == -1

\* The characters of selector strings, and the strings made of them.
KeyChars == {"a", ":"}
SelectorStrings == UNION {[1 .. n -> KeyChars] : n \in 0 .. MaxStrLen}

\* `${x || ''}` of an optional string, of an optional number
StringOrEmpty(x) == IF x = NoArg THEN <<>> ELSE x
NumberOrEmpty(x) == IF x = NoNumber \/ x = 0 THEN <<>> ELSE NumberToString(x)

\* `problems:${cursor || ''}:${keyword || ''}:${problemsetId || ''}`
ProblemsKey(cursor, keyword, problemsetId) ==
    ProblemsPrefix \o StringOrEmpty(cursor) \o <<":">> \o StringOrEmpty(keyword)
        \o <<":">> \o NumberOrEmpty(problemsetId)

\* `submissions:${cursor || ''}:${username || ''}:${problemId || ''}:${status || ''}:${lang || ''}`
SubmissionsKey(cursor, username, problemId, status, lang) ==
    SubmissionsPrefix \o StringOrEmpty(cursor) \o <<":">> \o StringOrEmpty(username)
        \o <<":">> \o NumberOrEmpty(problemId) \o <<":">> \o StringOrEmpty(status)
        \o <<":">> \o StringOrEmpty(lang)

\* The query parameters the fetch function sends, `if (x) params.x = x`: a
\* parameter that is falsy is left out (<<>> for a string, 0 for a number).
ProblemsParams(cursor, keyword, problemsetId) ==
    [cursor |-> StringOrEmpty(cursor), keyword |-> StringOrEmpty(keyword),
     problemset_id |-> IF problemsetId = NoNumber THEN 0 ELSE problemsetId]

SubmissionsParams(cursor, username, problemId, status, lang) ==
    [cursor |-> StringOrEmpty(cursor), username |-> StringOrEmpty(username),
     problem_id |-> IF problemId = NoNumber THEN 0 ELSE problemId,
     status |-> StringOrEmpty(status), lang |-> StringOrEmpty(lang)]

CacheKeys == {ProblemKey(1), SubmissionCodeKey(<<"x">>)}
\* "" is a value a read can cache: getSubmissionCode returns response.data
CacheValues == {Str(""), Str("A")}
TtlArgs == {NoTtl} \cup (0 .. MaxTTL)
FetchErrors == {"NetworkError", "ServerError"}
\* getOrFetch calls that are suspended on their fetch at the same time
Slots == {1, 2}
\* One getOrFetch call is suspended at a time.
OneSlot == {1}

NoCall == [key |-> <<>>, ttl |-> 0, atCall |-> NoEntry]

\* What an operation leaves in `last`: its name and key, the entry of the key
\* when it was called (atCall) and when it completed (atEnd), how its fetch
\* ended (none | ok | fail), and what it gave back (outcome: value | error).
Ret(op, key, atCall, atEnd, fetch, outcome, value, error) ==
    [op |-> op, key |-> key, atCall |-> atCall, atEnd |-> atEnd,
     fetch |-> fetch, outcome |-> outcome, value |-> value, error |-> error]

NoOp == Ret("none", <<>>, NoEntry, NoEntry, "none", "none", Undefined, "")

\* The clock advances between operations and while a fetch is awaited.
Tick ==
    /\ now < MaxTime
    /\ now' = now + 1
    /\ last' = NoOp
    /\ before' = EmptyCache
    /\ UNCHANGED <<cache, pending, notCacheVars>>

Get(key) ==
    /\ cache' = GetEffect(cache, key, now)
    /\ last' = Ret("get", key, Entry(cache, key), Entry(cache, key), "none",
                   "value", GetValue(cache, key, now), "")
    /\ before' = EmptyCache
    /\ UNCHANGED <<now, pending, notCacheVars>>

Set(key, data, ttlMinutes) ==
    /\ cache' = SetEffect(cache, key, data, ttlMinutes, now)
    /\ last' = Ret("set", key, NoEntry, NoEntry, "none", "none", data, "")
    /\ before' = EmptyCache
    /\ UNCHANGED <<now, pending, notCacheVars>>

Delete(key) ==
    /\ cache' = Remove(cache, key)
    /\ last' = Ret("delete", key, NoEntry, NoEntry, "none", "none", Undefined, "")
    /\ before' = EmptyCache
    /\ UNCHANGED <<now, pending, notCacheVars>>

Clear ==
    /\ cache' = EmptyCache
    /\ last' = Ret("clear", <<>>, NoEntry, NoEntry, "none", "none", Undefined, "")
    /\ before' = EmptyCache
    /\ UNCHANGED <<now, pending, notCacheVars>>

\* The setInterval callback of the constructor.
CleanExpiredEntries ==
    /\ cache' = SweepEffect(cache, now)
    /\ last' = Ret("sweep", <<>>, NoEntry, NoEntry, "none", "none", Undefined, "")
    /\ before' = cache
    /\ UNCHANGED <<now, pending, notCacheVars>>

DeleteWithPrefix(prefix) ==
    /\ cache' = DeleteWithPrefixEffect(cache, prefix)
    /\ last' = Ret("deleteWithPrefix", prefix, NoEntry, NoEntry, "none", "none",
                   Undefined, "")
    /\ before' = cache
    /\ UNCHANGED <<now, pending, notCacheVars>>

ClearSubmissionsCacheOnlyDetails(c) == DeleteWithPrefixEffect(c, SubmissionPrefix)

\* ApiClient.clearSubmissionsCache()
ClearSubmissionsCacheEffect(c) ==
    DeleteWithPrefixEffect(DeleteWithPrefixEffect(c, SubmissionsPrefix), SubmissionPrefix)

\* submitCode after `await requestWithRetry` returned `response`: clear the
\* submission caches and return the response.
SubmitCodeSucceeds(response) ==
    /\ cache' = ClearSubmissionsCacheEffect(cache)
    /\ last' = Ret("submitCode", <<>>, NoEntry, NoEntry, "ok", "value", response, "")
    /\ before' = cache
    /\ UNCHANGED <<now, pending, notCacheVars>>

SubmitCodeFailsClears(error) ==
    /\ cache' = ClearSubmissionsCacheEffect(cache)
    /\ last' = Ret("submitCode", <<>>, NoEntry, NoEntry, "fail", "error", Undefined, error)
    /\ before' = cache
    /\ UNCHANGED <<now, pending, notCacheVars>>

\* submitCode when requestWithRetry threw: the error propagates.
SubmitCodeFails(error) ==
    /\ last' = Ret("submitCode", <<>>, NoEntry, NoEntry, "fail", "error", Undefined, error)
    /\ before' = cache
    /\ UNCHANGED <<cache, now, pending, notCacheVars>>

\* abortSubmission(submissionId) after `await requestWithRetry` returned.
AbortSubmissionSucceeds(submissionId) ==
    /\ cache' = Remove(ClearSubmissionsCacheEffect(cache), SubmissionKey(submissionId))
    /\ last' = Ret("abortSubmission", SubmissionKey(submissionId), NoEntry, NoEntry,
                   "ok", "value", Undefined, "")
    /\ before' = cache
    /\ UNCHANGED <<now, pending, notCacheVars>>

\* abortSubmission(submissionId) when requestWithRetry threw.
AbortSubmissionFails(submissionId, error) ==
    /\ last' = Ret("abortSubmission", SubmissionKey(submissionId), NoEntry, NoEntry,
                   "fail", "error", Undefined, error)
    /\ before' = cache
    /\ UNCHANGED <<cache, now, pending, notCacheVars>>

\* getOrFetch, up to its first suspension: a fresh hit returns at once,
\* a miss calls fetchFn and awaits it.
GetOrFetchHit(key) ==
    /\ GetValue(cache, key, now) # Undefined
    /\ cache' = GetEffect(cache, key, now)
    /\ last' = Ret("getOrFetch", key, Entry(cache, key), Entry(cache, key),
                   "none", "value", GetValue(cache, key, now), "")
    /\ before' = EmptyCache
    /\ UNCHANGED <<now, pending, notCacheVars>>

GetOrFetchMiss(slot, key, ttlMinutes) ==
    /\ pending[slot] = NoCall
    /\ GetValue(cache, key, now) = Undefined
    /\ cache' = GetEffect(cache, key, now)
    /\ pending' = [pending EXCEPT ![slot] =
                     [key |-> key, ttl |-> ttlMinutes,
                      atCall |-> Entry(cache, key)]]
    /\ last' = NoOp
    /\ before' = EmptyCache
    /\ UNCHANGED <<now, notCacheVars>>

FetchResolvedNoStore(slot, data) ==
    LET call == pending[slot] IN
    /\ call # NoCall
    /\ last' = Ret("getOrFetch", call.key, call.atCall,
                   Entry(cache, call.key), "ok", "value", data, "")
    /\ pending' = [pending EXCEPT ![slot] = NoCall]
    /\ before' = EmptyCache
    /\ UNCHANGED <<cache, now, notCacheVars>>

\* fetchFn resolved with `data`: set and return.
FetchResolved(slot, data) ==
    LET call == pending[slot] IN
    /\ call # NoCall
    /\ cache' = SetEffect(cache, call.key, data, call.ttl, now)
    /\ last' = Ret("getOrFetch", call.key, call.atCall,
                   Entry(cache, call.key), "ok", "value", data, "")
    /\ pending' = [pending EXCEPT ![slot] = NoCall]
    /\ before' = EmptyCache
    /\ UNCHANGED <<now, notCacheVars>>

\* fetchFn rejected with `error`: the catch block.
FetchRejected(slot, error) ==
    LET call == pending[slot]
        staleEntry == StaleEntry(cache, call.key, now)
    IN
    /\ call # NoCall
    /\ last' = IF Truthy(staleEntry)
               THEN Ret("getOrFetch", call.key, call.atCall,
                        Entry(cache, call.key), "fail", "value", staleEntry, "")
               ELSE Ret("getOrFetch", call.key, call.atCall,
                        Entry(cache, call.key), "fail", "error", Undefined, error)
    /\ pending' = [pending EXCEPT ![slot] = NoCall]
    /\ before' = EmptyCache
    /\ UNCHANGED <<cache, now, notCacheVars>>

CacheVarsInit ==
    /\ cache = EmptyCache
    /\ now = 0
    /\ pending = [s \in Slots |-> NoCall]
    /\ before = EmptyCache
    /\ last = NoOp

-----------------------------------------------------------------------------
(* ApiClient.requestWithRetry and the response interceptor.                *)

\* What the server (or the network) answers to one request: an HTTP status,
\* 0 standing for no response at all (socket, TLS, timeout, ECONNREFUSED).
HttpOutcomes == {200, 401, 404, 500, 0}

\* error.response?.status of a plain Error is undefined: every comparison
\* with it is false.  0 stands for it.
NoStatus == 0

NoError == [message |-> "", status |-> NoStatus, request |-> 0]

GenericError ==
    [message |-> "Request failed, please check your network connection",
     status |-> NoStatus, request |-> 0]

\* The error the response interceptor rejects with.  Each branch builds a
\* `new Error(message)`: the AxiosError and its `response` are dropped.
\* `request` is the ordinal of the request that failed (the identity of the
\* Error object).
Intercepted(http, request) ==
    [message |-> IF http = 0 THEN "Network connectivity issue"
                 ELSE IF http = 401 THEN "Invalid or expired token. Please set a new one."
                 ELSE "apiErrorMessage",
     status |-> NoStatus,
     request |-> request]

\* api.ts:130-133: the test that breaks out of the retry loop
IsNonRetryable(error) ==
    \/ error.status = 401
    \/ (error.status >= 400 /\ error.status < 500)

LoopCondInclusive(a, count) == a <= count

\* api.ts:113: while (attempt < this.retryCount)
LoopCond(a, count) == a < count

\* AuthService._accessToken when no token is set (null)
NoToken == "null"
Tokens == {"pat1", "pat2"}

\* A request without Authorization header
NoHeader == <<>>

AuthorizationHeaderAlways(tok) == <<"Bearer", tok>>

\* The request interceptor: `if (token && config.headers) config.headers
\* .Authorization = `Bearer ${token}``, token being what getToken() returns
\* when the request is issued.
AuthorizationHeader(tok) ==
    IF tok # NoToken THEN <<"Bearer", tok>> ELSE NoHeader

\* The objects the extension builds when it is activated: no token loaded
\* yet, one ApiClient and so one CacheService with its sweep timer.
ClientVarsInit ==
    /\ token = NoToken
    /\ sentAuth = <<>>
    /\ sweepTimers = 1
    /\ calls = <<>>

RetryInit ==
    /\ retryCount \in 0 .. MaxRetryCount
    /\ retryDelay \in 1 .. MaxRetryDelay
    /\ attempt = 0
    /\ lastError = NoError
    /\ rpc = "idle"
    /\ thrown = NoError
    /\ requests = 0
    /\ responses = <<>>
    /\ unauthorizedCalls = 0
    /\ sleeps = <<>>

\* The head of the while loop with `attempt` = a: issue the next request or
\* leave the loop and throw.
LoopHead(a, err, tok) ==
    IF LoopCond(a, retryCount)
    THEN /\ rpc' = "awaiting"
         /\ requests' = requests + 1
         /\ sentAuth' = Append(sentAuth, AuthorizationHeader(tok))
         /\ thrown' = thrown
    ELSE /\ rpc' = "thrown"
         /\ requests' = requests
         /\ sentAuth' = sentAuth
         /\ thrown' = IF err # NoError THEN err ELSE GenericError

\* requestWithRetry is called.
CallRequestWithRetry ==
    /\ rpc = "idle"
    /\ LoopHead(attempt, lastError, token)
    /\ UNCHANGED <<retryCount, retryDelay, attempt, lastError, responses,
                   unauthorizedCalls, sleeps, token, notRetryVars>>

\* The awaited request succeeds: return response.data.
RequestSucceeds ==
    /\ rpc = "awaiting"
    /\ rpc' = "returned"
    /\ responses' = Append(responses, 200)
    /\ UNCHANGED <<retryCount, retryDelay, attempt, lastError, thrown, requests,
                   unauthorizedCalls, sleeps, token, sentAuth, notRetryVars>>

\* The awaited request fails with `http`: the interceptor runs, then the
\* catch block up to the backoff sleep or the end of the loop.
RequestFails(http) ==
    LET error == Intercepted(http, requests) IN
    /\ rpc = "awaiting"
    /\ http # 200
    /\ responses' = Append(responses, http)
    /\ unauthorizedCalls' = IF http = 401 THEN unauthorizedCalls + 1
                            ELSE unauthorizedCalls
    /\ token' = IF http = 401 THEN NoToken ELSE token
    /\ lastError' = error
    /\ IF IsNonRetryable(error)
       THEN /\ rpc' = "thrown"
            /\ thrown' = error
            /\ UNCHANGED <<attempt, requests, sleeps, sentAuth>>
       ELSE /\ attempt' = attempt + 1
            /\ IF attempt + 1 < retryCount
               THEN /\ rpc' = "sleeping"
                    /\ sleeps' = Append(sleeps, retryDelay * (attempt + 1))
                    /\ UNCHANGED <<thrown, requests, sentAuth>>
               ELSE /\ LoopHead(attempt + 1, error, token')
                    /\ UNCHANGED sleeps
    /\ UNCHANGED <<retryCount, retryDelay, notRetryVars>>

\* The backoff timer fires: back to the head of the loop.
BackoffElapsed ==
    /\ rpc = "sleeping"
    /\ LoopHead(attempt, lastError, token)
    /\ UNCHANGED <<retryCount, retryDelay, attempt, lastError, responses,
                   unauthorizedCalls, sleeps, token, notRetryVars>>

\* new CacheService(..): the constructor starts a sweep timer that nothing
\* ever clears.
CacheServiceConstructed(timers) == timers + 1

CacheServiceReused(timers) == timers

\* storeAndValidateToken stores the token the user entered and builds an
\* ApiClient, and with it a CacheService, to validate it.
TokenStored(tok) ==
    /\ sweepTimers < MaxSweepTimers
    /\ token # tok
    /\ token' = tok
    /\ sweepTimers' = CacheServiceConstructed(sweepTimers)
    /\ UNCHANGED <<retryVars, sentAuth, calls, cacheVars, monitorVars>>

\* validateTokenAndFetchProfile: nothing without a token, else an ApiClient
\* of its own.
ValidateTokenAndFetchProfile ==
    /\ sweepTimers < MaxSweepTimers
    /\ token # NoToken
    /\ sweepTimers' = CacheServiceConstructed(sweepTimers)
    /\ UNCHANGED <<retryVars, token, sentAuth, calls, cacheVars, monitorVars>>

\* setCacheTTL replaces the client's CacheService by a new, empty one whose
\* default ttl is ttlMinutes.
SetCacheTTL(ttlMinutes) ==
    /\ sweepTimers < MaxSweepTimers
    /\ cache' = EmptyCache
    /\ sweepTimers' = CacheServiceConstructed(sweepTimers)
    /\ UNCHANGED <<now, pending, before, last, retryVars, monitorVars,
                   token, sentAuth, calls>>

\* clearToken
TokenCleared ==
    /\ token # NoToken
    /\ token' = NoToken
    /\ UNCHANGED <<retryVars, sentAuth, notRetryVars>>

RetryNext ==
    \/ CallRequestWithRetry
    \/ RequestSucceeds
    \/ \E http \in HttpOutcomes : RequestFails(http)
    \/ BackoffElapsed
    \/ \E tok \in Tokens : TokenStored(tok)
    \/ TokenCleared

-----------------------------------------------------------------------------
(* SubmissionMonitorService.                                               *)

Ids == {1, 2}
\* What addSubmission is called with, and fetched statuses in the spelling of
\* isTerminalStatus.
Statuses == {"Queued", "Running", "Accepted"}

\* export type SubmissionStatus: what the API returns in Submission.status.
ApiStatuses ==
    {"accepted", "wrong_answer", "compile_error", "runtime_error",
     "time_limit_exceeded", "memory_limit_exceeded", "disk_limit_exceeded",
     "memory_leak", "pending", "compiling", "judging", "void", "aborted",
     "skipped", "system_error", "bad_problem", "unknown_error"}

\* Two checkSubmissions invocations can be suspended at once: setInterval
\* does not wait for the promise of the previous one.
TickSlots == {1, 2}

\* The status sequence of the monitor-termination scenario.
Script == <<"Queued", "Running", "Accepted">>

TerminalStatuses ==
    {"Accepted", "Wrong Answer", "Time Limit Exceeded", "Memory Limit Exceeded",
     "Runtime Error", "Compilation Error", "System Error", "Canceled", "Aborted",
     "Judged", "Failed"}

IsTerminalStatus(status) == status \in TerminalStatuses

\* Math.ceil(timeout / this.monitorInterval)
CeilDiv(a, b) == (a + b - 1) \div b

StatusChangedAlways(lastStatus, currentStatus) == TRUE

\* submissionMonitor.ts:92   lastStatus !== currentStatus
StatusChanged(lastStatus, currentStatus) == lastStatus # currentStatus

TimedOutAfter(attempts, ceiling) == attempts > ceiling

\* submissionMonitor.ts:113   attempts >= this.maxAttempts
TimedOut(attempts, ceiling) == attempts >= ceiling

\* A Map in insertion order: the sequence of its entries.  An iterator is the
\* number of entries in front of the next one it yields (pos); deleting an
\* entry in front of an iterator moves the iterator back by one, so that it
\* continues with the same next entry and sees entries added meanwhile, as a
\* JavaScript Map iterator does.
MapHas(ms, id) == \E i \in 1 .. Len(ms) : ms[i].id = id

MapSet(ms, id, status) ==
    IF MapHas(ms, id)
    THEN [i \in 1 .. Len(ms) |->
            IF ms[i].id = id THEN [ms[i] EXCEPT !.status = status] ELSE ms[i]]
    ELSE Append(ms, [id |-> id, status |-> status])

MapDeleteAll(ms, ids) == SelectSeq(ms, LAMBDA e : e.id \notin ids)

EntriesAfter(ms, pos) == SubSeq(ms, pos + 1, Len(ms))

PosAfterDelete(ms, ids, pos) ==
    pos - Cardinality({i \in 1 .. pos : i <= Len(ms) /\ ms[i].id \in ids})

NoTick == [active |-> FALSE, pos |-> 0, id |-> 0, lastStatus |-> "",
           hasChanges |-> FALSE, toRemove |-> {},
           latest |-> FALSE, overtaken |-> FALSE, afterEmpty |-> FALSE]

\* Number(cache.get(key) || 0)
AttemptsRead(c, key, t) ==
    LET v == GetValue(c, key, t) IN IF Truthy(v) THEN v.n ELSE 0

StartUnguarded(timerSet, n) == n + 1

\* start(): a new interval timer unless this.timer is set
StartEffect(timerSet, n) == IF timerSet THEN n ELSE n + 1

\* stop(): clearInterval(this.timer) if this.timer is set
StopEffect(timerSet, n) == IF timerSet THEN n - 1 ELSE n

\* ghost: the calls made on the monitor so far (addSubmission, stop, interval
\* callbacks)
Events == timerFires + stops + Len(added[1]) + Len(added[2])

MonitorVarsInit ==
    /\ monitoredSubmissions = <<>>
    /\ timer = FALSE
    /\ intervals = 0
    /\ ticks = [s \in TickSlots |-> NoTick]
    /\ timerFires = 0
    /\ added = [i \in Ids |-> <<>>]
    /\ polls = [i \in Ids |-> 0]
    /\ onScript = [i \in Ids |-> TRUE]
    /\ steady = [i \in Ids |-> TRUE]
    /\ notified = [i \in Ids |-> 0]
    /\ refreshed = FALSE
    /\ stops = 0
    /\ emptied = TRUE
    /\ staleWrite = FALSE

RefreshAlways(hasChanges) == TRUE

\* submissionMonitor.ts:128   if (hasChanges) { clearCache(); refresh() }
RefreshCalled(hasChanges) == hasChanges

\* The loop of checkSubmissions from the head of an iteration to the next
\* suspension, the other invocations being as in `base`: with another entry
\* to visit, delete its cached detail and call getSubmissionDetails, whose
\* getOrFetch misses and awaits the request; without one, remove the
\* collected ids and, on a change, clear the cache and refresh the view.
\* Ghost fields of the new fetch: it is the latest one started for its id,
\* and whether the map had been empty since the last addSubmission.
ContinueTick(slot, base, ms, c, pos, hasChanges, toRemove) ==
    LET rest == EntriesAfter(ms, pos) IN
    IF rest # <<>>
    THEN /\ ticks' = [s \in TickSlots |->
                        IF s = slot
                        THEN [active |-> TRUE, pos |-> pos + 1, id |-> rest[1].id,
                              lastStatus |-> rest[1].status,
                              hasChanges |-> hasChanges, toRemove |-> toRemove,
                              latest |-> TRUE, overtaken |-> FALSE,
                              afterEmpty |-> emptied]
                        ELSE IF base[s].active /\ base[s].id = rest[1].id
                             THEN [base[s] EXCEPT !.latest = FALSE]
                             ELSE base[s]]
         /\ cache' = Remove(c, SubmissionKey(rest[1].id))
         /\ monitoredSubmissions' = ms
         /\ emptied' = emptied
         /\ refreshed' = refreshed
    ELSE /\ ticks' = [s \in TickSlots |->
                        IF s = slot THEN NoTick
                        ELSE [base[s] EXCEPT !.pos = PosAfterDelete(ms, toRemove, @)]]
         /\ cache' = IF hasChanges THEN EmptyCache ELSE c
         /\ monitoredSubmissions' = MapDeleteAll(ms, toRemove)
         /\ emptied' = (emptied \/ MapDeleteAll(ms, toRemove) = <<>>)
         /\ refreshed' = RefreshCalled(hasChanges)

\* The body of the loop after `await getSubmissionDetails(id)` returned a
\* Submission with `status`, starting from cache c.  Ghost: the suspended
\* fetches for the same id that were started earlier are now overtaken (with
\* two invocations, the earlier one is the one that is not the latest).
AfterDetails(slot, status, c) ==
    LET t == ticks[slot]
        changed == StatusChanged(t.lastStatus, status)
        ms1 == IF changed
               THEN MapSet(monitoredSubmissions, t.id, status)
               ELSE monitoredSubmissions
        c1 == IF changed THEN DeleteWithPrefixEffect(c, SubmissionsPrefix) ELSE c
        key == MonitorAttemptsKey(t.id)
        attempts == AttemptsRead(c1, key, now)
        c2 == SetEffect(GetEffect(c1, key, now), key, Num(attempts + 1), 10, now)
        remove == IF IsTerminalStatus(status) \/ TimedOut(attempts, maxAttempts)
                  THEN t.toRemove \cup {t.id} ELSE t.toRemove
        base == [s \in TickSlots |->
                   IF s # slot /\ ticks[s].active /\ ticks[s].id = t.id
                      /\ ~ticks[s].latest
                   THEN [ticks[s] EXCEPT !.overtaken = TRUE] ELSE ticks[s]]
    IN
    /\ notified' = IF changed THEN [notified EXCEPT ![t.id] = @ + 1] ELSE notified
    /\ polls' = [polls EXCEPT ![t.id] = @ + 1]
    /\ onScript' = [onScript EXCEPT ![t.id] =
                       @ /\ polls[t.id] < Len(Script) /\ status = Script[polls[t.id] + 1]]
    /\ steady' = [steady EXCEPT ![t.id] = @ /\ added[t.id] # <<>> /\ status = added[t.id][1]]
    /\ staleWrite' = (staleWrite \/ (t.overtaken /\ changed))
    /\ ContinueTick(slot, base, ms1, c2, t.pos, t.hasChanges \/ changed, remove)

\* addSubmission(submissionId, initialStatus), start() included
AddSubmission(id, initialStatus) ==
    /\ Len(added[1]) + Len(added[2]) < MaxAdds
    /\ Events < MaxEvents
    /\ monitoredSubmissions' = MapSet(monitoredSubmissions, id, initialStatus)
    /\ timer' = TRUE
    /\ intervals' = StartEffect(timer, intervals)
    /\ added' = [added EXCEPT ![id] = Append(@, initialStatus)]
    /\ emptied' = FALSE
    /\ UNCHANGED <<maxAttempts, ticks, timerFires, polls, onScript, steady, notified,
                   refreshed, stops, staleWrite, cacheVars, retryVars, clientVars>>

TimerFiresIdleKeepsTimer ==
    /\ intervals > 0
    /\ timerFires < MaxTimerFires
    /\ Events < MaxEvents
    /\ monitoredSubmissions = <<>>
    /\ timerFires' = timerFires + 1
    /\ UNCHANGED <<timer, intervals, monitoredSubmissions, emptied, maxAttempts, ticks,
                   added, polls, onScript, steady, notified, refreshed, stops,
                   staleWrite, cacheVars, retryVars, clientVars>>

\* The interval callback finds nothing to monitor: stop().
TimerFiresIdle ==
    /\ intervals > 0
    /\ timerFires < MaxTimerFires
    /\ Events < MaxEvents
    /\ monitoredSubmissions = <<>>
    /\ timer' = FALSE
    /\ intervals' = StopEffect(timer, intervals)
    /\ monitoredSubmissions' = <<>>
    /\ emptied' = TRUE
    /\ timerFires' = timerFires + 1
    /\ UNCHANGED <<maxAttempts, ticks, added, polls, onScript, steady,
                   notified, refreshed, stops, staleWrite, cacheVars, retryVars, clientVars>>

\* The interval callback starts a checkSubmissions invocation, which runs to
\* its first await.
TimerFiresCheck(slot) ==
    /\ intervals > 0
    /\ timerFires < MaxTimerFires
    /\ Events < MaxEvents
    /\ monitoredSubmissions # <<>>
    /\ ~ticks[slot].active
    /\ \A s \in TickSlots : s < slot => ticks[s].active
    /\ timerFires' = timerFires + 1
    /\ ContinueTick(slot, ticks, monitoredSubmissions, cache, 0, FALSE, {})
    /\ UNCHANGED <<timer, intervals, maxAttempts, added, polls, onScript, steady,
                   notified, stops, staleWrite, now, pending, before, last, retryVars, clientVars>>

\* The request of the suspended getSubmissionDetails succeeded: getOrFetch
\* stores the Submission and returns it.
DetailsFetched(slot, status) ==
    /\ ticks[slot].active
    /\ AfterDetails(slot, status,
                    SetEffect(cache, SubmissionKey(ticks[slot].id), Obj(status), 5, now))
    /\ UNCHANGED <<timer, intervals, maxAttempts, timerFires, added, stops,
                   now, pending, before, last, retryVars, clientVars>>

DetailsFailedAborts(slot) ==
    /\ ticks[slot].active
    /\ ticks' = [ticks EXCEPT ![slot] = NoTick]
    /\ UNCHANGED <<monitoredSubmissions, emptied, refreshed, notified, polls, onScript,
                   steady, staleWrite, timer, intervals, maxAttempts, timerFires,
                   added, stops, cacheVars, retryVars, clientVars>>

\* The request failed (after its retries): getOrFetch falls back to a stale
\* entry if it finds one, else throws and the loop's catch logs the error.
DetailsFailed(slot) ==
    LET staleEntry == StaleEntry(cache, SubmissionKey(ticks[slot].id), now) IN
    /\ ticks[slot].active
    /\ IF Truthy(staleEntry)
       THEN AfterDetails(slot, staleEntry.s, cache)
       ELSE /\ ContinueTick(slot, ticks, monitoredSubmissions, cache, ticks[slot].pos,
                            ticks[slot].hasChanges, ticks[slot].toRemove)
            /\ UNCHANGED <<notified, polls, onScript, steady, staleWrite>>
    /\ UNCHANGED <<timer, intervals, maxAttempts, timerFires, added, stops,
                   now, pending, before, last, retryVars, clientVars>>

StopKeepsSubmissions ==
    /\ stops < MaxStops
    /\ Events < MaxEvents
    /\ stops' = stops + 1
    /\ timer' = FALSE
    /\ intervals' = StopEffect(timer, intervals)
    /\ UNCHANGED <<monitoredSubmissions, emptied, ticks, maxAttempts, timerFires, added,
                   polls, onScript, steady, notified, refreshed, staleWrite,
                   cacheVars, retryVars, clientVars>>

\* SubmissionProvider.getChildren got its page from getSubmissions, whose
\* getOrFetch stored it for 2 minutes.
SubmissionsListLoaded ==
    /\ SubmissionsListKey \notin DOMAIN cache
    /\ cache' = SetEffect(cache, SubmissionsListKey, Str("A"), 2, now)
    /\ UNCHANGED <<now, pending, before, last, retryVars, monitorVars, clientVars>>

\* The user opened problem 1: getProblemDetails stored it for 30 minutes.
ProblemDetailsLoaded ==
    /\ ProblemKey(1) \notin DOMAIN cache
    /\ cache' = SetEffect(cache, ProblemKey(1), Str("A"), 30, now)
    /\ UNCHANGED <<now, pending, before, last, retryVars, monitorVars, clientVars>>

\* stop(): a public method; deactivate (extension.ts:87-90) does not call it.
Stop ==
    /\ stops < MaxStops
    /\ Events < MaxEvents
    /\ stops' = stops + 1
    /\ timer' = FALSE
    /\ intervals' = StopEffect(timer, intervals)
    /\ monitoredSubmissions' = <<>>
    /\ emptied' = TRUE
    /\ ticks' = [s \in TickSlots |-> [ticks[s] EXCEPT !.pos = 0]]
    /\ UNCHANGED <<maxAttempts, timerFires, added, polls, onScript,
                   steady, notified, refreshed, staleWrite, cacheVars, retryVars, clientVars>>

MonitorInit ==
    /\ CacheVarsInit
    /\ RetryInit /\ retryCount = 0 /\ retryDelay = 1
    /\ MonitorVarsInit
    /\ ClientVarsInit
    /\ maxAttempts \in {CeilDiv(t, i) : t \in 1 .. MaxTimeout, i \in 1 .. MaxInterval}

MonitorNextWith(ids, slots, statuses) ==
    \/ \E id \in ids, st \in {"Queued"} : AddSubmission(id, st)
    \/ TimerFiresIdle
    \/ \E s \in slots : TimerFiresCheck(s)
    \/ \E s \in slots, st \in statuses : DetailsFetched(s, st)
    \/ \E s \in slots : DetailsFailed(s)
    \/ Stop

MonitorNextOf(ids, slots) == MonitorNextWith(ids, slots, Statuses)

\* Two tracked ids, one checkSubmissions invocation at a time.
MonitorNext ==
    \/ MonitorNextOf(Ids, {1})
    \/ SubmissionsListLoaded
    \/ ProblemDetailsLoaded

\* One tracked id, overlapping checkSubmissions invocations.
OverlapNext == MonitorNextOf({1}, TickSlots)

SpecMonitor == MonitorInit /\ [][MonitorNext]_vars

SpecOverlap == MonitorInit /\ [][OverlapNext]_vars

\* One tracked id, one checkSubmissions invocation at a time, the statuses
\* being those of the API.
ApiStatusNext == MonitorNextWith({1}, {1}, ApiStatuses)

SpecApiStatus == MonitorInit /\ [][ApiStatusNext]_vars

\* The monitor of one id, together with what builds CacheService objects;
\* setCacheTTL is called with the default ttl in force.
TimersNext ==
    \/ MonitorNextWith({1}, {1}, {"Accepted"})
    \/ \E tok \in Tokens : TokenStored(tok)
    \/ ValidateTokenAndFetchProfile
    \/ SetCacheTTL(DefaultTTL)

SpecTimers == MonitorInit /\ [][TimersNext]_vars

\* Date.now() moves on while checkSubmissions invocations are suspended and
\* between them.
ClockAdvances(d) ==
    /\ now + d <= MaxMonitorTime
    /\ now' = now + d
    /\ UNCHANGED <<cache, pending, before, last, retryVars, monitorVars, clientVars>>

StaleNext ==
    \/ OverlapNext
    \/ \E d \in 1 .. MaxMonitorTime : ClockAdvances(d)

\* Overlapping checkSubmissions invocations with the clock running.
SpecStale == MonitorInit /\ [][StaleNext]_vars

CacheInit ==
    /\ CacheVarsInit
    /\ RetryInit /\ retryCount = 0 /\ retryDelay = 1
    /\ MonitorVarsInit /\ maxAttempts = 1
    /\ ClientVarsInit

CacheNext ==
    \/ Tick
    \/ \E k \in CacheKeys : Get(k)
    \/ \E k \in CacheKeys, v \in CacheValues, ttl \in TtlArgs : Set(k, v, ttl)
    \/ \E k \in CacheKeys : Delete(k)
    \/ Clear
    \/ CleanExpiredEntries
    \/ \E k \in CacheKeys : GetOrFetchHit(k)
    \/ \E s \in OneSlot, k \in CacheKeys, ttl \in TtlArgs : GetOrFetchMiss(s, k, ttl)
    \/ \E s \in OneSlot, v \in CacheValues : FetchResolved(s, v)
    \/ \E s \in OneSlot, e \in FetchErrors : FetchRejected(s, e)

SpecCache == CacheInit /\ [][CacheNext]_vars

\* Reads that overlap, and invalidations while they await their fetch.
ReadsNext ==
    \/ Tick
    \/ \E k \in CacheKeys : GetOrFetchHit(k)
    \/ \E s \in Slots, k \in CacheKeys : GetOrFetchMiss(s, k, NoTtl)
    \/ \E s \in Slots, v \in CacheValues : FetchResolved(s, v)
    \/ \E s \in Slots, e \in FetchErrors : FetchRejected(s, e)
    \/ \E k \in CacheKeys : Delete(k)
    \/ Clear

SpecReads == CacheInit /\ [][ReadsNext]_vars

\* const cacheKey = 'user:profile'
UserProfileKey == <<"u","s","e","r",":","p","r","o","f","i","l","e">>

\* The request of getUserProfile succeeded.  The profile the server returns
\* is the one of the owner of the token the request carries; it is named by
\* that token.
GetUserProfileFetched ==
    /\ token \in Tokens
    /\ FetchResolved(1, Str(token))

\* The client's reads of the profile (getUserProfile: getOrFetch of
\* 'user:profile' with a ttl of 15 minutes) while the token is set, replaced
\* and cleared.
CredentialNext ==
    \/ Tick
    \/ \E tok \in Tokens : TokenStored(tok)
    \/ TokenCleared
    \/ GetOrFetchHit(UserProfileKey)
    \/ GetOrFetchMiss(1, UserProfileKey, 15)
    \/ GetUserProfileFetched
    \/ \E e \in FetchErrors : FetchRejected(1, e)

SpecCredential == CacheInit /\ [][CredentialNext]_vars

\* The latest two calls, the newest last.
Latest(cs) == IF Len(cs) > 2 THEN SubSeq(cs, Len(cs) - 1, Len(cs)) ELSE cs

\* getProblems up to its getOrFetch: the key it builds and the request its
\* fetch function would send.
GetProblems(cursor, keyword, problemsetId) ==
    /\ calls' = Latest(Append(calls,
                    [op |-> "getProblems",
                     key |-> ProblemsKey(cursor, keyword, problemsetId),
                     params |-> ProblemsParams(cursor, keyword, problemsetId)]))
    /\ UNCHANGED <<cacheVars, retryVars, monitorVars, token, sentAuth, sweepTimers>>

\* getSubmissions up to its getOrFetch.
GetSubmissions(cursor, username, problemId, status, lang) ==
    /\ calls' = Latest(Append(calls,
                    [op |-> "getSubmissions",
                     key |-> SubmissionsKey(cursor, username, problemId, status, lang),
                     params |-> SubmissionsParams(cursor, username, problemId,
                                                  status, lang)]))
    /\ UNCHANGED <<cacheVars, retryVars, monitorVars, token, sentAuth, sweepTimers>>

StringArgs == {NoArg} \cup SelectorStrings
NumberArgs == {NoNumber, 0, 1}

KeysNext ==
    \/ \E c \in StringArgs, k \in StringArgs, p \in NumberArgs : GetProblems(c, k, p)
    \/ \E c \in StringArgs, u \in StringArgs, p \in NumberArgs, st \in {NoArg, <<>>} :
          GetSubmissions(c, u, p, st, NoArg)

SpecKeys == CacheInit /\ [][KeysNext]_vars

-----------------------------------------------------------------------------
(* Prefix invalidation, on the key shapes api.ts builds.                   *)

PrefixKeys ==
    {SubmissionsListKey, SubmissionsPrefix \o <<"c", ":", ":", ":", ":">>,
     SubmissionKey(5), SubmissionCodeKey(<<"x">>), ProblemKey(1)}

Prefixes == {SubmissionsPrefix, SubmissionPrefix, ProblemPrefix, <<>>}

\* Submissions aborted: one with a cached detail, one without.
AbortIds == {5, 6}

PrefixNext ==
    \/ \E k \in PrefixKeys, v \in CacheValues : Set(k, v, 0)
    \/ \E k \in PrefixKeys : Delete(k)
    \/ \E p \in Prefixes : DeleteWithPrefix(p)
    \/ SubmitCodeSucceeds(Num(7))
    \/ \E e \in FetchErrors : SubmitCodeFails(e)
    \/ \E id \in AbortIds : AbortSubmissionSucceeds(id)
    \/ \E id \in AbortIds, e \in FetchErrors : AbortSubmissionFails(id, e)

SpecPrefix == CacheInit /\ [][PrefixNext]_vars

-----------------------------------------------------------------------------
(* Claims about CacheService.                                              *)

\* "k starts with p", stated without the model's StartsWith.
HasPrefix(k, p) == \E n \in 0 .. Len(k) : SubSeq(k, 1, n) = p

\* C4 (as claimed): a getOrFetch whose fetch failed while the entry it found
\* at the call was unchanged, expired and before its staleUntil returns that
\* entry's data and does not fail, whatever the data is.
C4_StaleFallbackWhateverValue ==
    (/\ last.op = "getOrFetch"
     /\ last.fetch = "fail"
     /\ last.atCall # NoEntry
     /\ last.atEnd = last.atCall
     /\ last.atCall.expires <= now
     /\ now < last.atCall.staleUntil)
    => (last.outcome = "value" /\ last.value = last.atCall.data)

\* C5 (as claimed): getOrFetch raises an error only if its fetch failed and
\* the key had no entry inside its stale window at that moment (here: strictly
\* inside, expires < now < staleUntil, the reading most favourable to the
\* code); the error raised is the one the fetch was rejected with.
C5_FailsOnlyWithoutStaleEntry ==
    (last.op = "getOrFetch" /\ last.outcome = "error")
    => /\ last.fetch = "fail"
       /\ last.error \in FetchErrors
       /\ ~(/\ last.atEnd # NoEntry
            /\ last.atEnd.expires < now
            /\ now < last.atEnd.staleUntil)

\* C6 (as claimed): get(k) returns a value iff an entry exists and
\* now < expiresAt(k).
C6_FreshOnlyBeforeExpiry ==
    last.op = "get"
    => (last.value # Undefined
          <=> (last.atCall # NoEntry /\ now < last.atCall.expires))

\* C6 (amended): get(k) returns the entry's data iff an entry exists and
\* now <= expiresAt(k); from expiresAt(k) + 1 on it returns undefined.
C6_FreshUntilExpiryInclusive ==
    last.op = "get"
    => /\ last.value # Undefined
            <=> (last.atCall # NoEntry /\ now <= last.atCall.expires)
       /\ last.value # Undefined => last.value = last.atCall.data

C6_Witness ==
    /\ last.op = "get"
    /\ last.atCall # NoEntry
    /\ now = last.atCall.expires
    /\ last.value = last.atCall.data

\* The three parts of C7, with the instant from which an entry counts as dead
\* given by Dead(entry): unreachable through get, unreachable through the
\* stale fallback, removed (and nothing else removed) by the sweep.
DeadEviction(Dead(_)) ==
    /\ (last.op = "get" /\ last.atCall # NoEntry /\ Dead(last.atCall))
          => last.value = Undefined
    /\ (/\ last.op = "getOrFetch"
        /\ last.fetch = "fail"
        /\ last.atEnd # NoEntry
        /\ Dead(last.atEnd))
          => last.outcome = "error"
    /\ last.op = "sweep"
          => /\ \A k \in DOMAIN cache : ~Dead(cache[k])
             /\ \A k \in DOMAIN before :
                  ~Dead(before[k]) => (k \in DOMAIN cache /\ cache[k] = before[k])
             /\ DOMAIN cache \subseteq DOMAIN before

DeadFrom(entry) == now >= entry.staleUntil

DeadAfter(entry) == now > entry.staleUntil

C8_PrefixAllAndOnly ==
    last.op = "deleteWithPrefix"
    => /\ DOMAIN cache \subseteq DOMAIN before
       /\ \A k \in DOMAIN before :
            IF HasPrefix(k, last.key)
            THEN k \notin DOMAIN cache
            ELSE k \in DOMAIN cache /\ cache[k] = before[k]

C8_Witness ==
    /\ last.op = "deleteWithPrefix"
    /\ last.key = SubmissionsPrefix
    /\ SubmissionsListKey \in DOMAIN before
    /\ \A k \in DOMAIN cache : ~HasPrefix(k, SubmissionsPrefix)
    /\ {SubmissionKey(5), SubmissionCodeKey(<<"x">>), ProblemKey(1)}
          \subseteq DOMAIN cache

-----------------------------------------------------------------------------
(* Claims about requestWithRetry.                                          *)

SpecRetryInit ==
    /\ CacheVarsInit
    /\ RetryInit
    /\ MonitorVarsInit /\ maxAttempts = 1
    /\ ClientVarsInit

SpecRetry == SpecRetryInit /\ [][RetryNext]_vars

ClientErrors == {404}
RetryableOutcomes == {500, 0}

\* C1 (as claimed): once a request of the call was answered 401,
\* handleUnauthorizedError has run exactly once, the call has thrown, and no
\* request or sleep followed the 401.
C1_UnauthorizedOnceNoRetry ==
    \A i \in 1 .. Len(responses) :
        responses[i] = 401
        => /\ unauthorizedCalls = 1
           /\ rpc = "thrown"
           /\ requests = i
           /\ Len(sleeps) = i - 1

\* C2 (as claimed): if the first request of the call was answered with a 4xx
\* other than 401, that request is the only one and the call has thrown.
C2_ClientErrorOnce ==
    (Len(responses) >= 1 /\ responses[1] \in ClientErrors)
    => (requests = 1 /\ rpc = "thrown" /\ sleeps = <<>>)

AllRetryable == \A i \in 1 .. Len(responses) : responses[i] \in RetryableOutcomes

\* C3: never more than retryCount requests; when every request failed with a
\* 5xx or a network failure the call throws after exactly retryCount
\* requests, with the error of the last one.
C3_RetryBound ==
    /\ requests <= retryCount
    /\ (AllRetryable /\ rpc = "thrown")
          => /\ requests = retryCount
             /\ retryCount > 0
                  => thrown = Intercepted(responses[Len(responses)], retryCount)
    /\ (AllRetryable /\ Len(responses) = retryCount /\ rpc # "idle")
          => rpc = "thrown"

C3_Witness ==
    /\ retryCount = 3
    /\ rpc = "thrown"
    /\ responses = <<500, 0, 500>>
    /\ requests = 3
    /\ thrown.request = 3

\* ---------------------------------------------------------------------------
\* Submission monitor: termination and timeout
\* ---------------------------------------------------------------------------

\* No suspended checkSubmissions still has id among its submissionsToRemove.
NoRemovalDue(id) == \A s \in TickSlots : ~(ticks[s].active /\ id \in ticks[s].toRemove)

NoTickActive == \A s \in TickSlots : ~ticks[s].active

\* id was added once, as Queued, and the statuses fetched for it so far are
\* a prefix of Queued, Running, Accepted.
Scripted(id) == added[id] = <<"Queued">> /\ onScript[id]

\* C9: a submission added as Queued whose fetched statuses are Queued,
\* Running, Accepted has had one notification per status transition (none
\* after the first fetch, one after the second, two after the third), and
\* once the checkSubmissions that fetched Accepted has finished it is no
\* longer in monitoredSubmissions.
C9_MonitorTermination ==
    \A id \in Ids :
        Scripted(id) =>
            /\ notified[id] = (IF polls[id] = 0 THEN 0 ELSE polls[id] - 1)
            /\ (polls[id] = Len(Script) /\ NoRemovalDue(id))
                   => ~MapHas(monitoredSubmissions, id)

C9_Witness ==
    \E id \in Ids :
        /\ Scripted(id)
        /\ polls[id] = Len(Script)
        /\ notified[id] = 2
        /\ NoTickActive
        /\ stops = 0
        /\ ~MapHas(monitoredSubmissions, id)

\* id is the only submission ever added, every checkSubmissions so far has
\* finished and fetched its initial status for it, and stop() was not called.
SteadyOnly(id) ==
    /\ \A i \in Ids : Len(added[i]) = (IF i = id THEN 1 ELSE 0)
    /\ steady[id]
    /\ polls[id] = timerFires
    /\ NoTickActive
    /\ stops = 0

\* C10: a submission whose fetched status never differs from its initial
\* status is tracked during its first maxAttempts - 1 ticks and removed by
\* the end of tick number maxAttempts, with no notification.
C10_RemovedAfterMaxAttemptsTicks ==
    \A id \in Ids :
        SteadyOnly(id) =>
            /\ notified[id] = 0
            /\ MapHas(monitoredSubmissions, id) <=> timerFires < maxAttempts

\* id is the only submission ever added, and it was added once.
OnlyAdded(id) == \A i \in Ids : Len(added[i]) = (IF i = id THEN 1 ELSE 0)

\* C11: the only submission added is no longer in monitoredSubmissions once
\* more than maxAttempts checkSubmissions invocations have run and finished,
\* whatever its fetches returned and whether or not they failed.
C11_DroppedAtCeiling ==
    \A id \in Ids :
        (OnlyAdded(id) /\ stops = 0 /\ NoTickActive /\ timerFires > maxAttempts)
            => ~MapHas(monitoredSubmissions, id)

\* C12: as long as stop() is not called, no getSubmissionDetails request is
\* in flight that was issued after monitoredSubmissions had become empty and
\* before a new addSubmission.
C12_NoFetchAfterEmpty ==
    stops = 0 => \A s \in TickSlots : ~(ticks[s].active /\ ticks[s].afterEmpty)

\* C13: at most one checkSubmissions invocation is suspended at any time.
C13_TicksNeverOverlap ==
    Cardinality({s \in TickSlots : ticks[s].active}) <= 1

\* C14: the response of a fetch that a later-started fetch for the same id
\* has overtaken is never written to monitoredSubmissions (nor notified).
C14_NoStaleOverwrite == ~staleWrite

\* monitoredSubmissions.get(id), for an id the map has
MapGet(ms, id) == ms[CHOOSE i \in 1 .. Len(ms) : ms[i].id = id].status

C16_AddSubmissionIdempotent ==
    /\ [](intervals <= 1 /\ (timer <=> intervals = 1))
    /\ [][\A id \in Ids, st \in Statuses :
             AddSubmission(id, st) =>
                 /\ Cardinality({i \in 1 .. Len(monitoredSubmissions') :
                                    monitoredSubmissions'[i].id = id}) = 1
                 /\ MapGet(monitoredSubmissions', id) = st
                 /\ \A o \in Ids \ {id} :
                       /\ MapHas(monitoredSubmissions', o) = MapHas(monitoredSubmissions, o)
                       /\ MapHas(monitoredSubmissions, o) =>
                             MapGet(monitoredSubmissions', o) = MapGet(monitoredSubmissions, o)
                 /\ timer'
                 /\ intervals' = 1
         ]_vars

\* id 1 was added again, as Queued, after a check had stored another status
\* for it, while the timer was running.
C16_Witness ==
    /\ Len(added[1]) = 2
    /\ added[2] = <<>>
    /\ stops = 0
    /\ polls[1] = 1
    /\ notified[1] = 1
    /\ monitoredSubmissions = <<[id |-> 1, status |-> "Queued"]>>
    /\ timer
    /\ intervals = 1

\* C17 as stated: between checkSubmissions invocations, a set timer implies a
\* non-empty monitoredSubmissions.
C17_TimerImpliesTracked ==
    (NoTickActive /\ timer) => monitoredSubmissions # <<>>

\* C17: the interval callback that finds monitoredSubmissions empty clears
\* the timer and starts no check, so a timer with nothing to monitor lasts
\* until the next interval callback and no longer.
C17_TimerStoppedAtNextFire ==
    [][(timerFires' = timerFires + 1 /\ monitoredSubmissions = <<>>) =>
          /\ ~timer'
          /\ intervals' = 0
          /\ monitoredSubmissions' = <<>>
          /\ ticks' = ticks
          /\ cache' = cache
      ]_vars

\* Without any stop() call, the timer of a monitor that had a submission
\* is cleared and nothing is monitored.
C17_Witness ==
    /\ stops = 0
    /\ \E id \in Ids : added[id] # <<>>
    /\ ~timer
    /\ intervals = 0
    /\ monitoredSubmissions = <<>>
    /\ NoTickActive

\* C19: stop() leaves no timer set, no interval timer live and
\* monitoredSubmissions empty; called with no timer set and nothing
\* monitored, it changes nothing of the service.
C19_StopClears ==
    [][Stop =>
          /\ ~timer'
          /\ intervals' = 0
          /\ monitoredSubmissions' = <<>>
          /\ (~timer /\ monitoredSubmissions = <<>>) =>
                UNCHANGED <<monitoredSubmissions, timer, intervals, maxAttempts, ticks,
                            cacheVars>>
      ]_vars

\* stop() was called with a submission monitored and no check run yet.
C19_Witness ==
    /\ stops = 1
    /\ timerFires = 0
    /\ \E id \in Ids : added[id] # <<>>
    /\ ~timer
    /\ intervals = 0
    /\ monitoredSubmissions = <<>>

\* C18: after a successful submitCode no key of the cache starts with
\* "submissions:"; after a successful abortSubmission(id) none does and
\* "submission:<id>" is not a key; both returned what the request returned.
C18_MutationsInvalidate ==
    (last.op \in {"submitCode", "abortSubmission"} /\ last.outcome = "value") =>
        /\ last.fetch = "ok"
        /\ \A k \in DOMAIN cache : ~HasPrefix(k, SubmissionsPrefix)
        /\ last.op = "abortSubmission" => last.key \notin DOMAIN cache

\* abortSubmission(5) succeeded on a cache that held a submission list, the
\* detail of submission 5 and a problem; the problem is still cached.
C18_Witness ==
    /\ last.op = "abortSubmission"
    /\ last.outcome = "value"
    /\ last.key = SubmissionKey(5)
    /\ {SubmissionsListKey, SubmissionKey(5), ProblemKey(1)} \subseteq DOMAIN before
    /\ ProblemKey(1) \in DOMAIN cache

\* C20: when the request of getSubmissionDetails fails, checkSubmissions
\* gets no status to compare: no status it compares comes from the cache.
C20_StatusNeverFromCache ==
    [][\A s \in TickSlots : DetailsFailed(s) => polls' = polls]_vars

\* C30: after submitCode or abortSubmission failed, the cache is the map
\* the call found, and the caller got the error of the request.
C30_FailedMutationKeepsCache ==
    (last.op \in {"submitCode", "abortSubmission"} /\ last.outcome = "error") =>
        /\ cache = before
        /\ last.fetch = "fail"
        /\ last.error \in FetchErrors

\* submitCode failed on a cache holding a submission list and a submission
\* detail, which are still there.
C30_Witness ==
    /\ last.op = "submitCode"
    /\ last.outcome = "error"
    /\ {SubmissionsListKey, SubmissionKey(5)} \subseteq DOMAIN cache

\* C21: when checkSubmissions gets a status for an id that is in
\* monitoredSubmissions, then, if it differs from the status stored there, it
\* is stored, notified once and no "submissions:" key is left in the cache;
\* if it equals the stored status, nothing is notified and the stored status
\* stays.
C21_ChangeHandledOnce ==
    [][\A s \in TickSlots, st \in Statuses :
          (DetailsFetched(s, st) /\ MapHas(monitoredSubmissions, ticks[s].id)) =>
              LET id == ticks[s].id
                  stored == MapGet(monitoredSubmissions, id)
              IN
              IF st # stored
              THEN /\ notified'[id] = notified[id] + 1
                   /\ MapHas(monitoredSubmissions', id) =>
                          MapGet(monitoredSubmissions', id) = st
                   /\ \A k \in DOMAIN cache' : ~HasPrefix(k, SubmissionsPrefix)
              ELSE /\ notified' = notified
                   /\ MapHas(monitoredSubmissions', id) =>
                          MapGet(monitoredSubmissions', id) = stored
      ]_vars

\* C29: a checkSubmissions invocation calls refresh() when it finishes if
\* and only if it notified a status change, and then no "submissions:" key
\* is in the cache; no step that does not finish an invocation calls it.
C29_RefreshFollowsChange ==
    [][/\ \A s \in TickSlots :
             (ticks[s].active /\ ~ticks'[s].active) =>
                 LET changedInTick == ticks[s].hasChanges \/ notified' # notified IN
                 /\ refreshed' = changedInTick
                 /\ changedInTick =>
                        \A k \in DOMAIN cache' : ~HasPrefix(k, SubmissionsPrefix)
       /\ (\A s \in TickSlots : ticks[s].active => ticks'[s].active) =>
              refreshed' = refreshed
      ]_vars

\* One finished invocation that fetched both ids, notified a change of id 1
\* only, and refreshed; the cached list is gone.
C29_Witness ==
    /\ timerFires = 1
    /\ NoTickActive
    /\ polls = <<1, 1>>
    /\ notified = <<1, 0>>
    /\ refreshed
    /\ cache = EmptyCache

\* C26: the n-th backoff sleep lasts retryDelay * n, and a failed request is
\* followed by a sleep exactly when its failure is retryable (5xx, network)
\* and it was not the last of the retryCount attempts.
C26_LinearBackoff ==
    /\ \A n \in 1 .. Len(sleeps) : sleeps[n] = retryDelay * n
    /\ Len(sleeps) = Cardinality({i \in 1 .. Len(responses) :
                                     /\ responses[i] \in RetryableOutcomes
                                     /\ i < retryCount})

\* C23: set(k, v, ttl) replaces the entry of k by one that expires at
\* now + ttl, the default taking the place of a ttl that is omitted or 0, and
\* that stays usable as stale until StalePeriod later, whatever the ttl; no
\* other key changes, and every stored entry has staleUntil >= expires.
C23_SetStoresExpiry ==
    [][\A k \in {last'.key}, v \in {last'.value}, ttl \in TtlArgs :
          (last'.op = "set" /\ Set(k, v, ttl)) =>
              LET lifetime == IF ttl \in {NoTtl, 0} THEN DefaultTTL ELSE ttl
              IN  /\ k \in DOMAIN cache'
                  /\ cache'[k].data = v
                  /\ cache'[k].expires = now + lifetime
                  /\ cache'[k].staleUntil = now + lifetime + StalePeriod
                  /\ \A j \in DOMAIN cache' : cache'[j].staleUntil >= cache'[j].expires
                  /\ \A j \in CacheKeys \ {k} :
                        /\ (j \in DOMAIN cache') = (j \in DOMAIN cache)
                        /\ j \in DOMAIN cache => cache'[j] = cache[j]]_vars

\* C23 as stated: the entry expires at now + ttl for every ttl that is passed,
\* the default being used only when ttl is omitted.
C23_Original ==
    [][\A k \in {last'.key}, v \in {last'.value}, ttl \in TtlArgs :
          (last'.op = "set" /\ Set(k, v, ttl)) =>
              LET lifetime == IF ttl = NoTtl THEN DefaultTTL ELSE ttl
              IN  /\ k \in DOMAIN cache'
                  /\ cache'[k].expires = now + lifetime
                  /\ cache'[k].staleUntil = now + lifetime + StalePeriod]_vars

C23_Witness ==
    /\ last.op = "set"
    /\ now >= 1
    /\ last.key \in DOMAIN cache
    /\ cache[last.key].expires = now + MaxTTL
    /\ cache[last.key].staleUntil = now + MaxTTL + StalePeriod
    /\ \E j \in DOMAIN cache : j # last.key

\* The entry e holds a value that get returns at time t.
C24_FreshAt(e, t) == e # NoEntry /\ t <= e.expires

\* C24: getOrFetch(k, fetchFn, ttl) returns the cached value and starts no
\* fetch when k has a fresh entry; otherwise it starts one fetch, and when
\* the fetch succeeds the result is stored under k with the lifetime set
\* gives to ttl and returned, and get(k) returns it up to the new expiry.
C24_GetOrFetch ==
    [][/\ \A k \in {last'.key} :
             (last'.fetch = "none" /\ GetOrFetchHit(k)) =>
                 /\ C24_FreshAt(Entry(cache, k), now)
                 /\ last'.outcome = "value"
                 /\ last'.value = cache[k].data
                 /\ pending' = pending
                 /\ cache' = cache
       /\ \A s \in Slots, k \in CacheKeys, ttl \in TtlArgs :
             (pending'[s] # pending[s] /\ GetOrFetchMiss(s, k, ttl)) =>
                 /\ ~C24_FreshAt(Entry(cache, k), now)
                 /\ \A o \in Slots \ {s} : pending'[o] = pending[o]
                 /\ pending'[s].key = k
       /\ \A s \in Slots, v \in {last'.value} :
             (last'.fetch = "ok" /\ FetchResolved(s, v)) =>
                 LET k == pending[s].key
                     ttl == pending[s].ttl
                     lifetime == IF ttl \in {NoTtl, 0} THEN DefaultTTL ELSE ttl
                 IN  /\ last'.outcome = "value"
                     /\ last'.key = k
                     /\ pending'[s] = NoCall
                     /\ \A o \in Slots \ {s} : pending'[o] = pending[o]
                     /\ k \in DOMAIN cache'
                     /\ cache'[k].data = v
                     /\ cache'[k].expires = now + lifetime
                     /\ \A t \in now .. cache'[k].expires :
                           GetValue(cache', k, t) = v]_vars

C24_Witness ==
    /\ last.op = "getOrFetch"
    /\ last.fetch = "ok"
    /\ last.atCall # NoEntry
    /\ last.key \in DOMAIN cache
    /\ cache[last.key].data = last.value
    /\ cache[last.key].data # last.atCall.data
    /\ cache[last.key].expires = now + MaxTTL

\* The final outcomes of the judge among ApiStatuses.
C27_FinalOutcomes ==
    {"accepted", "wrong_answer", "compile_error", "runtime_error",
     "time_limit_exceeded", "memory_limit_exceeded", "disk_limit_exceeded",
     "system_error", "aborted"}

\* C27: isTerminalStatus is true of the final outcomes the API returns, so
\* once the checkSubmissions invocation that fetched a final outcome for a
\* submission has finished, the submission is no longer tracked.
C27_FinalOutcomeLeavesTracking ==
    \A id \in Ids :
        (NoTickActive /\ MapHas(monitoredSubmissions, id)) =>
            MapGet(monitoredSubmissions, id) \notin C27_FinalOutcomes

C28_AtMostOneTimerEach == sweepTimers <= 1 /\ intervals <= 1

\* C22: two calls of the same list operation build the same cache key if and
\* only if they are the same logical request, that is, if their fetch
\* functions send the same query parameters.
C22_KeyInjective ==
    \A i \in 1 .. Len(calls), j \in 1 .. Len(calls) :
        calls[i].op = calls[j].op =>
            ((calls[i].key = calls[j].key) <=> (calls[i].params = calls[j].params))

\* The attempt count getMonitoringAttempts would read for id in cache c.
StoredAttempts(c, id, t) == AttemptsRead(c, MonitorAttemptsKey(id), t)

\* C31: the attempt count of a submission that stays tracked never
\* decreases, whatever happens to other submissions and to the cache.
C31_AttemptsNeverDecrease ==
    [][\A id \in Ids :
          (MapHas(monitoredSubmissions, id) /\ MapHas(monitoredSubmissions', id)) =>
              StoredAttempts(cache', id, now') >= StoredAttempts(cache, id, now)]_vars

\* A key that does not belong to submissions or to their monitoring
C32_OtherKey(k) ==
    /\ ~HasPrefix(k, <<"s","u","b","m","i","s","s","i","o","n">>)
    /\ ~HasPrefix(k, MonitorAttemptsPrefix)

\* C32: no step of the monitor removes or changes a cache entry whose key
\* is not one of submissions or of their monitoring: whatever such entry is
\* in the cache before a step of checkSubmissions is there, unchanged,
\* after it.
C32_TickKeepsOtherEntries ==
    [][\A k \in DOMAIN cache :
          C32_OtherKey(k) => (k \in DOMAIN cache' /\ cache'[k] = cache[k])]_vars

\* C33: when addSubmission is called for an id that a checkSubmissions
\* invocation had removed from monitoredSubmissions, the id starts with an
\* attempt count of 0.
C33_FreshBudgetOnAdd ==
    [][\A id \in Ids, st \in Statuses :
          (/\ AddSubmission(id, st)
           /\ added[id] # <<>>
           /\ ~MapHas(monitoredSubmissions, id)
           /\ stops = 0
           /\ NoTickActive)
          => StoredAttempts(cache', id, now') = 0]_vars

\* C34: after stop(), as long as addSubmission is not called,
\* monitoredSubmissions stays empty and nothing is notified, also when a
\* checkSubmissions invocation that was suspended during stop() resumes.
C34_EmptyAfterStop ==
    [][(stops > 0 /\ monitoredSubmissions = <<>> /\ added' = added) =>
          (monitoredSubmissions' = <<>> /\ notified' = notified)]_vars

\* C35: between checkSubmissions invocations, a submission in
\* monitoredSubmissions implies that the timer is set and one interval
\* timer is live; stated for the runs in which stop() is called only by
\* the interval callback that finds nothing to monitor.
C35_TrackedImpliesTimer ==
    (stops = 0 /\ NoTickActive /\ monitoredSubmissions # <<>>) =>
        (timer /\ intervals = 1)

\* C36: a fetch that was in flight for k when delete(k) or clear() ran (the
\* invalidation being the last operation on the cache before the fetch
\* resolves) does not store its result under k.
C36_InvalidationNotUndone ==
    [][\A s \in Slots, v \in {last'.value} :
          (/\ pending[s] # NoCall
           /\ \/ last.op = "delete" /\ last.key = pending[s].key
              \/ last.op = "clear"
           /\ last'.fetch = "ok"
           /\ FetchResolved(s, v))
          => pending[s].key \notin DOMAIN cache']_vars

\* C37: no two getOrFetch calls for the same key await a fetch at the same
\* time: a call that finds a fetch for its key in flight starts no second
\* one.
C37_OneFetchPerKey ==
    \A s1 \in Slots, s2 \in Slots :
        (s1 # s2 /\ pending[s1] # NoCall /\ pending[s2] # NoCall) =>
            pending[s1].key # pending[s2].key

\* The entry e is expired and still usable as stale at time t.
C39_InStaleWindow(e, t) == e # NoEntry /\ e.expires < t /\ t <= e.staleUntil

\* C39: with the entry of k inside its stale window, neither get(k), nor
\* the start of getOrFetch(k), nor the failure of its fetch changes the
\* cache, and the getOrFetch whose fetch fails returns the entry's value.
C39_FailedReadKeepsCache ==
    [][/\ \A k \in {last'.key} :
             (/\ last'.op = "get"
              /\ Get(k)
              /\ C39_InStaleWindow(Entry(cache, k), now))
             => cache' = cache
       /\ \A s \in OneSlot, k \in CacheKeys, ttl \in TtlArgs :
             (/\ pending'[s] # pending[s]
              /\ GetOrFetchMiss(s, k, ttl)
              /\ C39_InStaleWindow(Entry(cache, k), now))
             => cache' = cache
       /\ \A s \in OneSlot, e \in FetchErrors :
             (/\ last'.fetch = "fail"
              /\ FetchRejected(s, e)
              /\ C39_InStaleWindow(Entry(cache, pending[s].key), now))
             => /\ cache' = cache
                /\ last'.outcome = "value"
                /\ last'.value = cache[pending[s].key].data]_vars

\* C38: a read of the profile that returns a value returns the profile of
\* the owner of the token that is set when it returns, never one that was
\* stored under a token since cleared or replaced.
C38_NoDataFromPreviousToken ==
    [][(last' # last /\ last'.op = "getOrFetch" /\ last'.outcome = "value") =>
          last'.value = Str(token')]_vars

====
